---- MODULE Spec2Model ----
(***************************************************************************)
(* A model of the download page generators of amo-cli:                     *)
(*   .github/scripts/generate-download-page.py     (variant "default")     *)
(*   .github/scripts/generate-download-page-zh.py  (variant "zh")          *)
(*                                                                         *)
(* Python strings are TLA+ strings; they are taken apart with Len, SubSeq  *)
(* and \o only, character by character, as str.replace, str.endswith and   *)
(* the `in` operator do.  The module's text is ASCII: the icon glyphs and  *)
(* the bullet of the captions are written as ASCII stand-ins, none of      *)
(* which holds a brace, and the labels and messages the zh generator       *)
(* writes in Chinese are written as the default generator's; the two       *)
(* generators have the same statements otherwise, but for where the page   *)
(* is written.                                                             *)
(*                                                                         *)
(* Each function has a specification of its own (SpecArch, SpecSize,       *)
(* SpecPlatform, SpecChecksums, SpecRender), which draws the arguments and *)
(* calls it; SpecMain is a run of main.                                    *)
(***************************************************************************)
EXTENDS Integers, Sequences, FiniteSets, TLC

VARIABLES
    pc,             \* position of the running function or of main
    filename,       \* get_arch_info: its argument
    arch_info,      \* get_arch_info: the value returned
    size,           \* get_file_size: what os.path.getsize gives for the file
    filesize,       \* get_file_size: the value returned
    cwd,            \* the working directory: its entries, in the order
                    \* os.scandir (so glob.glob) enumerates them
    platform,       \* generate_platform_section: its three arguments
    section,        \* generate_platform_section: the value returned
    checksums,      \* generate_checksums_section: the value returned
    variant,        \* which of the two generators runs: "default" or "zh"
    argv,           \* sys.argv[1:]
    template_state, \* the template file: "ok", "missing" or "unreadable"
    template,       \* the text of the template file
    script_dir,     \* the installer scripts present beside the generator
    content,        \* main: content
    tag_name,       \* main: tag_name
    release_name,   \* main: release_name
    linux_section,  \* main: linux_section
    macos_section,  \* main: macos_section
    windows_section, \* main: windows_section
    download_sections, \* main: download_sections
    fs_ops,         \* what the run has done to the file system, in order
    messages,       \* what the run has printed, in order
    exit_status     \* the exit status of the process, Running until it ends

vars == <<pc, filename, arch_info, size, filesize, cwd, platform, section,
          checksums, variant, argv, template_state, template, script_dir,
          content, tag_name, release_name, linux_section, macos_section,
          windows_section, download_sections, fs_ops, messages, exit_status>>

archVars == <<filename, arch_info>>
sizeVars == <<size, filesize>>
dirVars  == <<cwd, platform, section, checksums>>
procVars == <<variant, argv, template_state, script_dir, fs_ops, messages,
              exit_status>>
textVars == <<template, content, tag_name, release_name, linux_section,
              macos_section, windows_section, download_sections>>
mainVars == <<procVars, textVars>>

Running == -1

\* the variables of the functions that are not running
IdleArch == filename = "" /\ arch_info = ""
IdleSize == size = <<0>> /\ filesize = ""
IdleDir  == cwd = <<>> /\ platform = <<>> /\ section = "" /\ checksums = ""
IdleProc ==
    /\ variant = "default"
    /\ argv = <<>>
    /\ template_state = "ok"
    /\ script_dir = {}
    /\ fs_ops = <<>>
    /\ messages = <<>>
    /\ exit_status = Running
IdleSections ==
    /\ linux_section = ""
    /\ macos_section = ""
    /\ windows_section = ""
IdleText ==
    /\ template = ""
    /\ content = ""
    /\ tag_name = ""
    /\ release_name = ""
    /\ download_sections = ""
    /\ IdleSections
IdleMain == IdleProc /\ IdleText

(***************************************************************************)
(* Python string primitives                                                *)
(***************************************************************************)

\* s[i-1:i-1+len(t)] == t, for a 1-based position i
StartsWithAt(s, t, i) ==
    /\ i >= 1
    /\ i + Len(t) - 1 <= Len(s)
    /\ SubSeq(s, i, i + Len(t) - 1) = t

\* t in s
Contains(s, t) == \E i \in 1..(Len(s) - Len(t) + 1) : StartsWithAt(s, t, i)

\* s.endswith(t)
EndsWith(s, t) == Len(t) <= Len(s) /\ StartsWithAt(s, t, Len(s) - Len(t) + 1)

\* s.startswith(t)
StartsWith(s, t) == StartsWithAt(s, t, 1)

\* s.find(t, i-1) + 1 for a 1-based i: the least place >= i where t starts
\* in s, and Len(s) + 1 when there is none
Find(s, t, i) ==
    LET occ == { j \in i..(Len(s) - Len(t) + 1) : StartsWithAt(s, t, j) }
    IN  IF occ = {} THEN Len(s) + 1
        ELSE CHOOSE j \in occ : \A k \in occ : j <= k

\* s.replace(old, new) for a non-empty old: the occurrences are found from
\* left to right, each search resuming after the previous occurrence, and
\* the text put in is not searched again.
RECURSIVE ReplaceFrom(_, _, _, _)
ReplaceFrom(s, old, new, i) ==
    LET j == Find(s, old, i)
    IN  IF j > Len(s) THEN SubSeq(s, i, Len(s))
        ELSE SubSeq(s, i, j - 1) \o new \o ReplaceFrom(s, old, new, j + Len(old))

Replace(s, old, new) == ReplaceFrom(s, old, new, 1)

\* The concatenations of 1..n strings of the set `parts`
RECURSIVE Concats(_, _)
Concats(parts, n) ==
    IF n = 0 THEN {}
    ELSE parts \cup { p \o q : p \in parts, q \in Concats(parts, n - 1) }

(***************************************************************************)
(* get_arch_info                                                           *)
(***************************************************************************)

\* Python's None, as a returned value (an f-string renders it "None")
None == "None"

\* the earlier outer rule loses: armv7 is looked for first
get_arch_info_armv7_first(name) ==
    IF Contains(name, "armv7") THEN "ARMv7"
    ELSE IF Contains(name, "amd64") THEN
        IF Contains(name, "linux") THEN "64-bit"
        ELSE IF Contains(name, "darwin") THEN "Intel"
        ELSE IF Contains(name, "windows") THEN "64-bit"
        ELSE "Unknown"
    ELSE IF Contains(name, "arm64") THEN
        IF Contains(name, "linux") THEN "ARM64"
        ELSE IF Contains(name, "darwin") THEN "Apple Silicon"
        ELSE "Unknown"
    ELSE "Unknown"

\* an outer branch whose platform test fails goes on to the later outer
\* rules, as a chain of plain ifs would
get_arch_info_fallthrough(name) ==
    IF Contains(name, "amd64") /\ Contains(name, "linux") THEN "64-bit"
    ELSE IF Contains(name, "amd64") /\ Contains(name, "darwin") THEN "Intel"
    ELSE IF Contains(name, "amd64") /\ Contains(name, "windows") THEN "64-bit"
    ELSE IF Contains(name, "arm64") /\ Contains(name, "linux") THEN "ARM64"
    ELSE IF Contains(name, "arm64") /\ Contains(name, "darwin")
         THEN "Apple Silicon"
    ELSE IF Contains(name, "armv7") THEN "ARMv7"
    ELSE "Unknown"

\* get_arch_info(filename) of the default variant.  An outer branch whose
\* inner if/elif chain matches nothing ends the whole if statement, and
\* control reaches the function's last line, return 'Unknown'.
get_arch_info(name) ==
    IF Contains(name, "amd64") THEN
        IF Contains(name, "linux") THEN "64-bit"
        ELSE IF Contains(name, "darwin") THEN "Intel"
        ELSE IF Contains(name, "windows") THEN "64-bit"
        ELSE "Unknown"
    ELSE IF Contains(name, "arm64") THEN
        IF Contains(name, "linux") THEN "ARM64"
        ELSE IF Contains(name, "darwin") THEN "Apple Silicon"
        ELSE "Unknown"
    ELSE IF Contains(name, "armv7") THEN "ARMv7"
    ELSE "Unknown"

\* the substrings a release artifact's name is made of
ArchParts ==
    {"amo_", "linux", "darwin", "windows", "amd64", "arm64", "armv7", "_", ".exe"}

MaxNameParts == 3

ArchNames == Concats(ArchParts, MaxNameParts)

InitArch ==
    /\ pc = "call"
    /\ filename \in ArchNames
    /\ arch_info = ""
    /\ IdleSize
    /\ IdleDir
    /\ IdleMain

CallGetArchInfo ==
    /\ pc = "call"
    /\ arch_info' = get_arch_info(filename)
    /\ pc' = "return"
    /\ UNCHANGED <<filename, sizeVars, dirVars, mainVars>>

NextArch == CallGetArchInfo

SpecArch == InitArch /\ [][NextArch]_vars

HasOuter(name) ==
    Contains(name, "amd64") \/ Contains(name, "arm64") \/ Contains(name, "armv7")

\* the outer branch entered finds none of the platforms it looks for
CommittedNoPlatform(name) ==
    \/ /\ Contains(name, "amd64")
       /\ ~Contains(name, "linux")
       /\ ~Contains(name, "darwin")
       /\ ~Contains(name, "windows")
    \/ /\ ~Contains(name, "amd64")
       /\ Contains(name, "arm64")
       /\ ~Contains(name, "linux")
       /\ ~Contains(name, "darwin")

\* C4 as stated: amd64 and linux give "64-bit", amd64 and darwin give
\* "Intel", arm64 and darwin give "Apple Silicon", and armv7 gives "ARMv7"
\* whatever else the name contains.
C4_Original ==
    pc = "return" =>
        /\ (Contains(filename, "amd64") /\ Contains(filename, "linux"))
              => arch_info = "64-bit"
        /\ (Contains(filename, "amd64") /\ Contains(filename, "darwin"))
              => arch_info = "Intel"
        /\ (Contains(filename, "arm64") /\ Contains(filename, "darwin"))
              => arch_info = "Apple Silicon"
        /\ Contains(filename, "armv7") => arch_info = "ARMv7"

\* C4 amended: each label is returned when no rule tested earlier applies:
\* amd64 and linux give "64-bit"; amd64 and darwin without linux give
\* "Intel"; arm64 and darwin without amd64 and without linux give
\* "Apple Silicon"; armv7 without amd64 and without arm64 gives "ARMv7",
\* whatever platform substring the name contains.
C4_ArchLabels ==
    pc = "return" =>
        /\ (Contains(filename, "amd64") /\ Contains(filename, "linux"))
              => arch_info = "64-bit"
        /\ (/\ Contains(filename, "amd64")
            /\ Contains(filename, "darwin")
            /\ ~Contains(filename, "linux"))
              => arch_info = "Intel"
        /\ (/\ Contains(filename, "arm64")
            /\ Contains(filename, "darwin")
            /\ ~Contains(filename, "amd64")
            /\ ~Contains(filename, "linux"))
              => arch_info = "Apple Silicon"
        /\ (/\ Contains(filename, "armv7")
            /\ ~Contains(filename, "amd64")
            /\ ~Contains(filename, "arm64"))
              => arch_info = "ARMv7"

\* an armv7 name that also names a platform has been labelled ARMv7
C4_Witness ==
    /\ pc = "return"
    /\ Contains(filename, "armv7")
    /\ Contains(filename, "linux")
    /\ arch_info = "ARMv7"

\* C9 as stated: a name that enters the amd64 or the arm64 branch and holds
\* none of the platforms that branch looks for yields None, and "Unknown"
\* is returned only when no outer pattern matches.
C9_Original ==
    pc = "return" =>
        /\ CommittedNoPlatform(filename) => arch_info = None
        /\ arch_info = "Unknown" => ~HasOuter(filename)

\* C9 amended: the first matching outer rule is committed to with no
\* fallthrough, and a name that enters the amd64 or the arm64 branch and
\* holds none of the platforms that branch looks for yields the "Unknown"
\* sentinel, the value also returned when no outer pattern matches; None
\* is never returned.
C9_CommittedUnknown ==
    pc = "return" =>
        /\ CommittedNoPlatform(filename) => arch_info = "Unknown"
        /\ ~HasOuter(filename) => arch_info = "Unknown"
        /\ arch_info # None

\* an amd64 name with no platform and with armv7 in it came back "Unknown"
C9_Witness ==
    /\ pc = "return"
    /\ Contains(filename, "amd64")
    /\ Contains(filename, "armv7")
    /\ CommittedNoPlatform(filename)
    /\ arch_info = "Unknown"

(***************************************************************************)
(* get_file_size                                                           *)
(*                                                                         *)
(* A byte count is a Python int, unbounded; it is held here as its digits  *)
(* in base 1024, least significant first, so that a division by 1024.0 is  *)
(* a shift.  The counts are below 2^53, where the float the loop divides   *)
(* holds the quotient exactly.                                             *)
(***************************************************************************)

Base == 1024

Units == <<"B", "KB", "MB", "GB", "TB">>

\* os.path.getsize raised
StatError == <<>>

RECURSIVE Pow(_, _)
Pow(b, e) == IF e = 0 THEN 1 ELSE b * Pow(b, e - 1)

\* the integer part of n / 1024^k
Whole(n, k) ==
    LET RECURSIVE W(_)
        W(i) == IF i > Len(n) THEN 0
                ELSE IF n[i] = 0 THEN W(i + 1)
                ELSE n[i] * Pow(Base, i - k - 1) + W(i + 1)
    IN  W(k + 1)

\* n / 1024^k < 1024.0
Below1024(n, k) == \A i \in (k + 2)..Len(n) : n[i] = 0

\* 10 * d for the digits d: the digits of the product, the last one the carry
RECURSIVE Times10(_, _)
Times10(d, carry) ==
    IF d = <<>> THEN <<carry>>
    ELSE LET t == 10 * Head(d) + carry
         IN  <<t % Base>> \o Times10(Tail(d), t \div Base)

\* f"{n / 1024^k:.1f}": the decimal nearest to the exact value, a tie going
\* to the even tenth; [whole, tenth]
RoundTenths(n, k) ==
    LET p     == Times10(SubSeq(n, 1, k), 0)
        tenth == p[k + 1]
        up    == /\ k > 0
                 /\ \/ p[k] > Base \div 2
                    \/ /\ p[k] = Base \div 2
                       /\ \/ \E i \in 1..(k - 1) : p[i] # 0
                          \/ tenth % 2 = 1
        w     == Whole(n, k)
    IN  IF ~up THEN [whole |-> w, tenth |-> tenth]
        ELSE IF tenth = 9 THEN [whole |-> w + 1, tenth |-> 0]
        ELSE [whole |-> w, tenth |-> tenth + 1]

FormatSize(n, k) ==
    LET r == RoundTenths(n, k)
    IN  ToString(r.whole) \o "." \o ToString(r.tenth) \o Units[k + 1]

\* get_file_size(filepath), given what os.path.getsize(filepath) does
get_file_size(n) ==
    IF n = StatError THEN "Unknown"
    ELSE LET RECURSIVE Loop(_)
             Loop(k) == IF k = 4 THEN FormatSize(n, 4)
                        ELSE IF Below1024(n, k) THEN FormatSize(n, k)
                        ELSE Loop(k + 1)
         IN  Loop(0)

NumDigits == 6

\* the digits a byte count is drawn from: 256/1024 is a tie of the rounding,
\* 1023/1024 rounds up to the next whole
DigitPool == {0, 1, 256, 1023}

\* n < 2^53 = 8 * 1024^5
ExactFloat(n) == /\ \A i \in 7..Len(n) : n[i] = 0
                 /\ Len(n) >= 6 => n[6] < 8

Sizes == { n \in [1..NumDigits -> DigitPool] : ExactFloat(n) }

\* m <= n, for two byte counts of the same length
RECURSIVE LeqFrom(_, _, _)
LeqFrom(m, n, i) ==
    IF i = 0 THEN TRUE
    ELSE IF m[i] # n[i] THEN m[i] < n[i]
    ELSE LeqFrom(m, n, i - 1)

Leq(m, n) == LeqFrom(m, n, Len(m))

InitSize ==
    /\ pc = "call"
    /\ size \in Sizes \cup {StatError}
    /\ filesize = ""
    /\ IdleArch
    /\ IdleDir
    /\ IdleMain

CallGetFileSize ==
    /\ pc = "call"
    /\ filesize' = get_file_size(size)
    /\ pc' = "return"
    /\ UNCHANGED <<size, archVars, dirVars, mainVars>>

NextSize == CallGetFileSize

SpecSize == InitSize /\ [][NextSize]_vars

\* the place of the first "." of a formatted size
DotAt(str) == CHOOSE i \in 1..Len(str) :
    /\ SubSeq(str, i, i) = "."
    /\ \A j \in 1..(i - 1) : SubSeq(str, j, j) # "."

DigitValue(c) == CHOOSE d \in 0..9 : ToString(d) = c

RECURSIVE ParseNat(_)
ParseNat(str) ==
    IF str = "" THEN 0
    ELSE 10 * ParseNat(SubSeq(str, 1, Len(str) - 1))
         + DigitValue(SubSeq(str, Len(str), Len(str)))

\* the digits before the point of a formatted size, as a number
NumericWhole(str) == ParseNat(SubSeq(str, 1, DotAt(str) - 1))

\* the unit of a formatted size, as its place in Units
UnitRank(str) ==
    CHOOSE u \in 1..5 : SubSeq(str, DotAt(str) + 2, Len(str)) = Units[u]

\* C5: for every byte count n >= 0 the numeric part of get_file_size's
\* result is in [0, 1024), and the unit chosen never decreases as n grows.
C5_Original ==
    (pc = "return" /\ size # StatError) =>
        /\ NumericWhole(filesize) < 1024
        /\ \A m \in Sizes :
              Leq(m, size) => UnitRank(get_file_size(m)) <= UnitRank(filesize)

(***************************************************************************)
(* The working directory and glob.glob                                     *)
(*                                                                         *)
(* An entry of the directory is [name, kind, size, readable, text]: kind   *)
(* is "file" for what os.path.isfile accepts and "dir" for what it         *)
(* refuses, size is the byte count os.path.getsize gives, readable is      *)
(* whether open and read succeed, and text is what reading then gives.     *)
(***************************************************************************)

\* a byte count below 1024^2 as the digits get_file_size takes
Bytes(n) == [i \in 1..NumDigits |->
                IF i = 1 THEN n % Base ELSE IF i = 2 THEN n \div Base ELSE 0]

\* os.path.isfile(name) in the directory
IsFile(dir, name) ==
    \E i \in 1..Len(dir) : dir[i].name = name /\ dir[i].kind = "file"

\* the entry called name
Entry(dir, name) == dir[CHOOSE i \in 1..Len(dir) : dir[i].name = name]

\* fnmatch of a name against prefix*suffix, the shape of the three platform
\* patterns and of *.sha256; glob leaves out the names that start with a dot
\* for a pattern that does not
Matches(name, pat) ==
    /\ Len(name) >= Len(pat.prefix) + Len(pat.suffix)
    /\ StartsWith(name, pat.prefix)
    /\ EndsWith(name, pat.suffix)
    /\ (StartsWith(name, ".") => StartsWith(pat.prefix, "."))

\* glob.glob(pattern) in the working directory
RECURSIVE Glob(_, _)
Glob(dir, pat) ==
    IF dir = <<>> THEN <<>>
    ELSE IF Matches(Head(dir).name, pat)
         THEN <<Head(dir).name>> \o Glob(Tail(dir), pat)
         ELSE Glob(Tail(dir), pat)

(***************************************************************************)
(* generate_platform_section                                               *)
(***************************************************************************)

Sp16 == "                "
Sp20 == "                    "

\* the caption's separator, a bullet in the source
Bullet == " * "

\* the list comprehension of line 48 without its os.path.isfile test
RECURSIVE KeepFiles_no_isfile(_, _)
KeepFiles_no_isfile(dir, names) ==
    IF names = <<>> THEN <<>>
    ELSE IF ~EndsWith(Head(names), ".sha256")
         THEN <<Head(names)>> \o KeepFiles_no_isfile(dir, Tail(names))
         ELSE KeepFiles_no_isfile(dir, Tail(names))

\* [f for f in files if not f.endswith('.sha256') and os.path.isfile(f)]
RECURSIVE KeepFiles(_, _)
KeepFiles(dir, names) ==
    IF names = <<>> THEN <<>>
    ELSE IF ~EndsWith(Head(names), ".sha256") /\ IsFile(dir, Head(names))
         THEN <<Head(names)>> \o KeepFiles(dir, Tail(names))
         ELSE KeepFiles(dir, Tail(names))

\* the link and the caption of one file (lines 57-63)
FileLines(dir, name) ==
    "\n" \o Sp20 \o "<a href=\"" \o name \o "\" class=\"download-link\">"
         \o name \o "</a>"
    \o "\n" \o Sp20 \o "<div class=\"file-info\">" \o get_arch_info(name)
         \o Bullet \o get_file_size(Entry(dir, name).size) \o "</div>"

RECURSIVE AllFileLines(_, _)
AllFileLines(dir, names) ==
    IF names = <<>> THEN ""
    ELSE FileLines(dir, Head(names)) \o AllFileLines(dir, Tail(names))

\* generate_platform_section(platform_name, platform_icon, file_pattern)
generate_platform_section(dir, plat) ==
    LET files == KeepFiles(dir, Glob(dir, plat.pattern))
    IN  IF files = <<>> THEN ""
        ELSE Sp16 \o "<div class=\"platform-card\">"
             \o "\n" \o Sp20 \o "<h3><span class=\"platform-icon\">" \o plat.icon
             \o "</span>" \o plat.name \o "</h3>"
             \o AllFileLines(dir, files)
             \o "\n" \o Sp16 \o "</div>"

\* the three calls of main (lines 131-133); the icons are glyphs in the source
Linux   == [name |-> "Linux", icon |-> "(penguin)",
            pattern |-> [prefix |-> "amo_linux_", suffix |-> ""]]
MacOS   == [name |-> "macOS", icon |-> "(apple)",
            pattern |-> [prefix |-> "amo_darwin_", suffix |-> ""]]
Windows == [name |-> "Windows", icon |-> "(window)",
            pattern |-> [prefix |-> "amo_windows_", suffix |-> ".exe"]]

Platforms == {Linux, MacOS, Windows}

\* the names an entry of the working directory is drawn from
ArtifactNames ==
    {"amo_linux_amd64", "amo_linux_amd64.sha256", "amo_linux_armv7",
     "amo_darwin_arm64", "amo_darwin_arm64.sha256",
     "amo_windows_amd64.exe", "amo_windows_amd64.exe.sha256", "amo_windows_",
     "index.html"}

MaxEntries == 3

\* the sequences of at most n entries of the set `entries` with distinct names
RECURSIVE Listings(_, _)
Listings(entries, n) ==
    IF n = 0 THEN {<<>>}
    ELSE LET shorter == Listings(entries, n - 1)
         IN  shorter \cup
             { Append(d, e) :
                 <<d, e>> \in { <<d, e>> \in shorter \X entries :
                                  \A i \in 1..Len(d) : d[i].name # e.name } }

PlatformEntries ==
    { [name |-> n, kind |-> k, size |-> Bytes(10), readable |-> TRUE,
       text |-> ""] :
        n \in ArtifactNames, k \in {"file", "dir"} }

InitPlatform ==
    /\ pc = "call"
    /\ cwd \in Listings(PlatformEntries, MaxEntries)
    /\ platform \in Platforms
    /\ section = ""
    /\ checksums = ""
    /\ IdleArch
    /\ IdleSize
    /\ IdleMain

CallGeneratePlatformSection ==
    /\ pc = "call"
    /\ section' = generate_platform_section(cwd, platform)
    /\ pc' = "return"
    /\ UNCHANGED <<cwd, platform, checksums, archVars, sizeVars, mainVars>>

NextPlatform == CallGeneratePlatformSection

SpecPlatform == InitPlatform /\ [][NextPlatform]_vars

\* s.count(t): the occurrences of t in s that do not overlap
RECURSIVE CountFrom(_, _, _)
CountFrom(s, t, i) ==
    LET j == Find(s, t, i)
    IN  IF j > Len(s) THEN 0 ELSE 1 + CountFrom(s, t, j + Len(t))

Count(s, t) == CountFrom(s, t, 1)

\* the targets of the <a href="..."> links of an HTML text, in order
RECURSIVE LinksFrom(_, _)
LinksFrom(s, i) ==
    LET a == Find(s, "<a href=\"", i)
    IN  IF a > Len(s) THEN <<>>
        ELSE LET q == Find(s, "\"", a + 9)
             IN  <<SubSeq(s, a + 9, q - 1)>> \o LinksFrom(s, q + 1)

Links(s) == LinksFrom(s, 1)

\* the entries the section is to list: those the pattern matches that are
\* regular files and whose name does not end in .sha256, in enumeration order
RECURSIVE Listed(_, _)
Listed(dir, pat) ==
    IF dir = <<>> THEN <<>>
    ELSE LET e == Head(dir)
         IN  IF /\ Matches(e.name, pat)
                /\ e.kind = "file"
                /\ ~EndsWith(e.name, ".sha256")
             THEN <<e.name>> \o Listed(Tail(dir), pat)
             ELSE Listed(Tail(dir), pat)

\* C3: generate_platform_section returns the empty string exactly when no
\* entry matching the pattern is a regular file whose name does not end in
\* .sha256; otherwise it returns one card with exactly one download link
\* per such entry, in enumeration order, and no other link.
C3_PlatformSection ==
    pc = "return" =>
        LET listed == Listed(cwd, platform.pattern)
        IN  /\ section = "" <=> listed = <<>>
            /\ listed # <<>> =>
                 /\ Count(section, "<div class=\"platform-card\">") = 1
                 /\ Links(section) = listed
                 /\ Count(section, "class=\"download-link\"") = Len(listed)

\* a card was returned for a directory that also holds a matching checksum
\* file and a matching entry that is not a regular file
C3_Witness ==
    /\ pc = "return"
    /\ section # ""
    /\ \E i \in 1..Len(cwd) :
          /\ Matches(cwd[i].name, platform.pattern)
          /\ EndsWith(cwd[i].name, ".sha256")
    /\ \E i \in 1..Len(cwd) :
          /\ Matches(cwd[i].name, platform.pattern)
          /\ cwd[i].kind = "dir"

(***************************************************************************)
(* generate_checksums_section                                              *)
(***************************************************************************)

\* the characters str.strip() and str.split() take for white space
IsSpace(c) == c \in {" ", "\n", "\t", "\r"}

\* text.strip().split(): whether it has a first element, and that element
HasToken(text) == \E i \in 1..Len(text) : ~IsSpace(SubSeq(text, i, i))

FirstToken(text) ==
    LET black == { i \in 1..Len(text) : ~IsSpace(SubSeq(text, i, i)) }
        from  == CHOOSE i \in black : \A k \in black : i <= k
        white == { i \in from..Len(text) : IsSpace(SubSeq(text, i, i)) }
        to    == IF white = {} THEN Len(text)
                 ELSE (CHOOSE i \in white : \A k \in white : i <= k) - 1
    IN  SubSeq(text, from, to)

\* with open(sha_file, 'r') as f: f.read() raises
ReadFails(e) == e.kind # "file" \/ ~e.readable

\* the block of one checksum (lines 83-87)
ChecksumItem(binary_name, checksum) ==
    "\n" \o Sp16 \o "<div class=\"checksum-item\">"
    \o "\n" \o Sp20 \o "<div class=\"checksum-filename\">" \o binary_name
         \o "</div>"
    \o "\n" \o Sp20 \o "<div class=\"checksum-hash\">" \o checksum \o "</div>"
    \o "\n" \o Sp16 \o "</div>"

\* sha_file.replace('.sha256', '')
BinaryName(sha_file) == Replace(sha_file, ".sha256", "")

\* the loop of lines 77-89 over the globbed names
RECURSIVE ChecksumItems(_, _)
ChecksumItems(dir, sha_files) ==
    IF sha_files = <<>> THEN ""
    ELSE LET sha_file    == Head(sha_files)
             binary_name == BinaryName(sha_file)
             e           == Entry(dir, sha_file)
             item        ==
                 IF ~IsFile(dir, binary_name) THEN ""
                 ELSE IF ReadFails(e) THEN ""
                 ELSE IF ~HasToken(e.text) THEN ""
                 ELSE ChecksumItem(binary_name, FirstToken(e.text))
         IN  item \o ChecksumItems(dir, Tail(sha_files))

ShaPattern == [prefix |-> "", suffix |-> ".sha256"]

\* generate_checksums_section()
generate_checksums_section(dir) ==
    LET sha_files == Glob(dir, ShaPattern)
    IN  IF sha_files = <<>> THEN "" ELSE ChecksumItems(dir, sha_files)

ChecksumNames ==
    {"amo_linux_amd64.sha256", "amo_linux_amd64.sha256.sha256",
     "amo_darwin_arm64.sha256", ".sha256"}

ChecksumTexts == {"abcd1234  amo_linux_amd64\n", "ef56", " \n"}

ChecksumEntries ==
    { [name |-> n, kind |-> "file", size |-> Bytes(10), readable |-> TRUE,
       text |-> t] :
        n \in ChecksumNames, t \in ChecksumTexts }
    \cup
    { [name |-> n, kind |-> k, size |-> Bytes(10), readable |-> TRUE,
       text |-> ""] :
        n \in {"amo_linux_amd64", "amo_darwin_arm64"}, k \in {"file", "dir"} }
    \cup
    { [name |-> "amo_darwin_arm64.sha256", kind |-> k, size |-> Bytes(10),
       readable |-> FALSE, text |-> "ef56"] : k \in {"file", "dir"} }

InitChecksums ==
    /\ pc = "call"
    /\ cwd \in Listings(ChecksumEntries, MaxEntries)
    /\ platform = <<>>
    /\ section = ""
    /\ checksums = ""
    /\ IdleArch
    /\ IdleSize
    /\ IdleMain

CallGenerateChecksumsSection ==
    /\ pc = "call"
    /\ checksums' = generate_checksums_section(cwd)
    /\ pc' = "return"
    /\ UNCHANGED <<cwd, platform, section, archVars, sizeVars, mainVars>>

NextChecksums == CallGenerateChecksumsSection

SpecChecksums == InitChecksums /\ [][NextChecksums]_vars

\* the texts that stand between an opening tag and the next </div>, in order
RECURSIVE DivTexts(_, _, _)
DivTexts(s, open, i) ==
    LET a == Find(s, open, i)
    IN  IF a > Len(s) THEN <<>>
        ELSE LET b == Find(s, "</div>", a + Len(open))
             IN  <<SubSeq(s, a + Len(open), b - 1)>> \o DivTexts(s, open, b)

\* the (file name, hash) pairs of the blocks of a checksum section
ChecksumPairs(s) ==
    LET names  == DivTexts(s, "<div class=\"checksum-filename\">", 1)
        hashes == DivTexts(s, "<div class=\"checksum-hash\">", 1)
    IN  [i \in 1..Len(names) |-> <<names[i], hashes[i]>>]

\* X for a name X.sha256: the name without its last seven characters
StripSuffix(name) == SubSeq(name, 1, Len(name) - Len(".sha256"))

\* the pairs the section is to hold: for each enumerated X.sha256 that can
\* be read and has a first token, and whose X is a regular file, X with
\* that token, in enumeration order
RECURSIVE WantedPairs(_, _)
WantedPairs(dir, rest) ==
    IF rest = <<>> THEN <<>>
    ELSE LET e == Head(rest)
         IN  IF /\ Matches(e.name, ShaPattern)
                /\ IsFile(dir, StripSuffix(e.name))
                /\ ~ReadFails(e)
                /\ HasToken(e.text)
             THEN <<<<StripSuffix(e.name), FirstToken(e.text)>>>>
                  \o WantedPairs(dir, Tail(rest))
             ELSE WantedPairs(dir, Tail(rest))

\* C2: generate_checksums_section emits a block for X.sha256 only if X, the
\* name with the .sha256 suffix stripped, is a regular file, and every
\* X.sha256 whose X exists and whose content has a first token gives
\* exactly one block pairing X with that token, in enumeration order.
C2_Original ==
    pc = "return" => ChecksumPairs(checksums) = WantedPairs(cwd, cwd)

(***************************************************************************)
(* Template rendering: the four replacements of main (lines 141-144)       *)
(***************************************************************************)

Tokens ==
    <<"{{TAG_NAME}}", "{{RELEASE_NAME}}", "{{DOWNLOAD_SECTIONS}}", "{{CHECKSUMS}}">>

\* content.replace('{{DOWNLOAD_SECTIONS}}', ...) with the token misspelt
RenderSections_misspelt(text, value) == Replace(text, "{{DOWNLOAD_SECTION}}", value)

\* content.replace('{{RELEASE_NAME}}', release_name, 1): the first occurrence
\* only
RenderRelease_once(text, value) ==
    LET j == Find(text, Tokens[2], 1)
    IN  IF j > Len(text) THEN text
        ELSE SubSeq(text, 1, j - 1) \o value
             \o SubSeq(text, j + Len(Tokens[2]), Len(text))

\* lines 141 to 144
RenderTag(text, value) == Replace(text, Tokens[1], value)

RenderRelease(text, value) == Replace(text, Tokens[2], value)

RenderSections(text, value) == Replace(text, Tokens[3], value)

RenderChecksums(text, value) == Replace(text, Tokens[4], value)

ReplaceTagName ==
    /\ pc = "replace_tag"
    /\ content' = RenderTag(content, tag_name)
    /\ pc' = "replace_release"
    /\ UNCHANGED <<archVars, sizeVars, dirVars, procVars, template, tag_name,
                   release_name, linux_section, macos_section,
                   windows_section, download_sections>>

ReplaceReleaseName ==
    /\ pc = "replace_release"
    /\ content' = RenderRelease(content, release_name)
    /\ pc' = "replace_sections"
    /\ UNCHANGED <<archVars, sizeVars, dirVars, procVars, template, tag_name,
                   release_name, linux_section, macos_section,
                   windows_section, download_sections>>

ReplaceDownloadSections ==
    /\ pc = "replace_sections"
    /\ content' = RenderSections(content, download_sections)
    /\ pc' = "replace_checksums"
    /\ UNCHANGED <<archVars, sizeVars, dirVars, procVars, template, tag_name,
                   release_name, linux_section, macos_section,
                   windows_section, download_sections>>

ReplaceChecksums ==
    /\ pc = "replace_checksums"
    /\ content' = RenderChecksums(content, checksums)
    /\ pc' = IF variant = "zh" THEN "mkdir" ELSE "write"
    /\ UNCHANGED <<archVars, sizeVars, dirVars, procVars, template, tag_name,
                   release_name, linux_section, macos_section,
                   windows_section, download_sections>>

\* the pieces a template is put together from: the four placeholders, a
\* placeholder between the two halves of another, and markup with a token
\* that is none of the four
TemplateParts ==
    {Tokens[1], Tokens[2], Tokens[3], Tokens[4],
     "{{CHECK" \o Tokens[1] \o "SUMS}}",
     "<h1>{{OTHER}}</h1>"}

MaxTemplateParts == 4

Templates == Concats(TemplateParts, MaxTemplateParts)

\* a working directory with one artifact and its checksum, and one whose
\* artifact has a placeholder in its name
ReleaseDir ==
    << [name |-> "amo_linux_amd64", kind |-> "file", size |-> Bytes(10),
        readable |-> TRUE, text |-> ""],
       [name |-> "amo_linux_amd64.sha256", kind |-> "file", size |-> Bytes(24),
        readable |-> TRUE, text |-> "abcd1234 amo_linux_amd64"] >>

BraceDir ==
    << [name |-> "amo_linux_{{CHECKSUMS}}", kind |-> "file",
        size |-> Bytes(1536), readable |-> TRUE, text |-> ""] >>

\* the values supplied to the four replacements
RenderInputs ==
    { [tag |-> "", release |-> "", sections |-> "", sums |-> ""],
      [tag |-> "v1.0", release |-> "First Release",
       sections |-> generate_platform_section(ReleaseDir, Linux),
       sums |-> generate_checksums_section(ReleaseDir)],
      [tag |-> "{{CHECKSUMS}}", release |-> "First Release", sections |-> "",
       sums |-> "abcd"],
      [tag |-> "v1.0", release |-> "",
       sections |-> generate_platform_section(BraceDir, Linux),
       sums |-> "abcd"] }

InitRender ==
    /\ pc = "replace_tag"
    /\ template \in Templates
    /\ content = template
    /\ \E in \in RenderInputs :
          /\ tag_name = in.tag
          /\ release_name = in.release
          /\ download_sections = in.sections
          /\ checksums = in.sums
    /\ IdleSections
    /\ cwd = <<>> /\ platform = <<>> /\ section = ""
    /\ IdleArch
    /\ IdleSize
    /\ IdleProc

NextRender ==
    \/ ReplaceTagName
    \/ ReplaceReleaseName
    \/ ReplaceDownloadSections
    \/ ReplaceChecksums

SpecRender == InitRender /\ [][NextRender]_vars

\* whether one of the four tokens stands in s
SpellsPlaceholder(s) == \E k \in 1..4 : Contains(s, Tokens[k])

\* s from place i on, with every occurrence of a token, found in one pass
\* from left to right, replaced by that token's value
RECURSIVE SubstitutedFrom(_, _, _)
SubstitutedFrom(s, values, i) ==
    LET occ == { j \in i..Len(s) : \E k \in 1..4 : StartsWithAt(s, Tokens[k], j) }
    IN  IF occ = {} THEN SubSeq(s, i, Len(s))
        ELSE LET j == CHOOSE j \in occ : \A m \in occ : j <= m
                 k == CHOOSE k \in 1..4 : StartsWithAt(s, Tokens[k], j)
             IN  SubSeq(s, i, j - 1) \o values[k]
                 \o SubstitutedFrom(s, values, j + Len(Tokens[k]))

\* the template with each token occurrence substituted by the supplied value
Substituted ==
    SubstitutedFrom(template,
                    <<tag_name, release_name, download_sections, checksums>>, 1)

AllEmpty ==
    /\ tag_name = ""
    /\ release_name = ""
    /\ download_sections = ""
    /\ checksums = ""

HasAllFour == \A k \in 1..4 : Contains(template, Tokens[k])

C7_Original ==
    pc = "write" => content = Substituted

\* C7 amended: the four replacements are made one after the other, each on
\* the result of the one before; for every template and supplied values such
\* that the template with each token occurrence substituted by its value
\* spells none of the four placeholders, the output equals that text, each
\* supplied value standing in it character for character.
C7_Verbatim ==
    (pc = "write" /\ ~SpellsPlaceholder(Substituted)) => content = Substituted

\* a template with a placeholder has been rendered with values that are not
\* empty, and the release name stands in the output
C7_Witness ==
    /\ pc = "write"
    /\ ~AllEmpty
    /\ release_name # ""
    /\ Contains(template, Tokens[2])
    /\ ~SpellsPlaceholder(Substituted)
    /\ content = Substituted
    /\ Contains(content, release_name)

(***************************************************************************)
(* main and copy_installation_scripts                                      *)
(*                                                                         *)
(* The run is one process; pc is the statement it is at.  The file system  *)
(* faults of the model are the ones the generators tell apart: a template  *)
(* that is missing or cannot be read, an installer script that is missing, *)
(* a checksum file that cannot be read.  The working directory is not the  *)
(* generator's own directory.                                              *)
(***************************************************************************)

\* the scripts of copy_installation_scripts (lines 98-102), in their order
ScriptNames == <<"install.sh", "install.ps1", "install.bat">>

CopyPc == <<"copy_1", "copy_2", "copy_3">>

Say(kind, about) == Append(messages, [kind |-> kind, about |-> about])

Do(op, path, text) == Append(fs_ops, [op |-> op, path |-> path, text |-> text])

\* sys.exit(1), or an exception nothing catches
Die(kind, about) ==
    /\ messages' = Say(kind, about)
    /\ exit_status' = 1
    /\ pc' = "exit"

\* lines 114-120
CheckArgs ==
    /\ pc = "check_args"
    /\ IF Len(argv) # 3
       THEN /\ Die("usage", "")
            /\ UNCHANGED <<tag_name, release_name>>
       ELSE /\ tag_name' = argv[2]
            /\ release_name' = argv[3]
            /\ pc' = "read_template"
            /\ UNCHANGED <<messages, exit_status>>
    /\ UNCHANGED <<archVars, sizeVars, dirVars, variant, argv, template_state,
                   script_dir, fs_ops, template, content, linux_section,
                   macos_section, windows_section, download_sections>>

\* a template that is not there is read as an empty one
ReadTemplate_missing_is_empty ==
    /\ pc = "read_template"
    /\ IF template_state = "unreadable"
       THEN /\ Die("traceback", argv[1])
            /\ UNCHANGED content
       ELSE /\ content' = IF template_state = "ok" THEN template ELSE ""
            /\ pc' = "linux"
            /\ UNCHANGED <<messages, exit_status>>
    /\ UNCHANGED <<archVars, sizeVars, dirVars, variant, argv, template_state,
                   script_dir, fs_ops, template, tag_name, release_name,
                   linux_section, macos_section, windows_section,
                   download_sections>>

\* lines 123-128: FileNotFoundError is caught and reported; any other error
\* of open or read is caught by nothing and ends the process with a traceback
ReadTemplate ==
    /\ pc = "read_template"
    /\ IF template_state = "missing"
       THEN /\ Die("error", argv[1])
            /\ UNCHANGED content
       ELSE IF template_state = "unreadable"
       THEN /\ Die("traceback", argv[1])
            /\ UNCHANGED content
       ELSE /\ content' = template
            /\ pc' = "linux"
            /\ UNCHANGED <<messages, exit_status>>
    /\ UNCHANGED <<archVars, sizeVars, dirVars, variant, argv, template_state,
                   script_dir, fs_ops, template, tag_name, release_name,
                   linux_section, macos_section, windows_section,
                   download_sections>>

\* line 131
GenerateLinuxSection ==
    /\ pc = "linux"
    /\ linux_section' = generate_platform_section(cwd, Linux)
    /\ pc' = "macos"
    /\ UNCHANGED <<archVars, sizeVars, dirVars, procVars, template, content,
                   tag_name, release_name, macos_section, windows_section,
                   download_sections>>

\* line 132
GenerateMacosSection ==
    /\ pc = "macos"
    /\ macos_section' = generate_platform_section(cwd, MacOS)
    /\ pc' = "windows"
    /\ UNCHANGED <<archVars, sizeVars, dirVars, procVars, template, content,
                   tag_name, release_name, linux_section, windows_section,
                   download_sections>>

\* lines 133-135
GenerateWindowsSection ==
    /\ pc = "windows"
    /\ windows_section' = generate_platform_section(cwd, Windows)
    /\ download_sections' = linux_section \o macos_section \o windows_section'
    /\ pc' = "checksums"
    /\ UNCHANGED <<archVars, sizeVars, dirVars, procVars, template, content,
                   tag_name, release_name, linux_section, macos_section>>

\* line 138
GenerateChecksums ==
    /\ pc = "checksums"
    /\ checksums' = generate_checksums_section(cwd)
    /\ pc' = "replace_tag"
    /\ UNCHANGED <<archVars, sizeVars, cwd, platform, section, mainVars>>

\* zh only, lines 146-148: Path('zh').mkdir(exist_ok=True)
MakeZhDir ==
    /\ pc = "mkdir"
    /\ fs_ops' = IF \E i \in 1..Len(cwd) : cwd[i].name = "zh"
                 THEN fs_ops ELSE Do("mkdir", "zh", "")
    /\ pc' = "write"
    /\ UNCHANGED <<archVars, sizeVars, dirVars, variant, argv, template_state,
                   script_dir, messages, exit_status, textVars>>

\* the path the page is written to
OutputFile(v) == IF v = "zh" THEN "zh/index.html" ELSE "index.html"

\* lines 147-150 (zh: 151-155)
WriteOutput ==
    /\ pc = "write"
    /\ fs_ops' = Do("write", OutputFile(variant), content)
    /\ messages' = Say("generated", OutputFile(variant))
    /\ pc' = CopyPc[1]
    /\ UNCHANGED <<archVars, sizeVars, dirVars, variant, argv, template_state,
                   script_dir, exit_status, textVars>>

\* the scripts are copied beside the page
CopyDestination_beside_page(v, script_name) ==
    IF v = "zh" THEN "zh/" \o script_name ELSE script_name

\* shutil.copy2(src_path, script_name): the destination is the script's name,
\* a path relative to the working directory, in both variants
CopyDestination(v, script_name) == script_name

\* the loop ends at the first script that is missing
CopyScript_stops_at_missing(i) ==
    /\ pc = CopyPc[i]
    /\ IF ScriptNames[i] \in script_dir
       THEN /\ fs_ops' = Do("copy", CopyDestination(variant, ScriptNames[i]), "")
            /\ messages' = Say("copied", ScriptNames[i])
            /\ pc' = IF i = 3 THEN "return" ELSE CopyPc[i + 1]
       ELSE /\ messages' = Say("warning", ScriptNames[i])
            /\ pc' = "return"
            /\ UNCHANGED fs_ops
    /\ UNCHANGED <<archVars, sizeVars, dirVars, variant, argv, template_state,
                   script_dir, exit_status, textVars>>

\* one turn of the loop of copy_installation_scripts (lines 104-111)
CopyScript(i) ==
    /\ pc = CopyPc[i]
    /\ IF ScriptNames[i] \in script_dir
       THEN /\ fs_ops' = Do("copy", CopyDestination(variant, ScriptNames[i]), "")
            /\ messages' = Say("copied", ScriptNames[i])
       ELSE /\ messages' = Say("warning", ScriptNames[i])
            /\ UNCHANGED fs_ops
    /\ pc' = IF i = 3 THEN "return" ELSE CopyPc[i + 1]
    /\ UNCHANGED <<archVars, sizeVars, dirVars, variant, argv, template_state,
                   script_dir, exit_status, textVars>>

\* main returns and the interpreter exits with status 0
Finish ==
    /\ pc = "return"
    /\ exit_status' = 0
    /\ pc' = "exit"
    /\ UNCHANGED <<archVars, sizeVars, dirVars, variant, argv, template_state,
                   script_dir, fs_ops, messages, textVars>>

MaxArgs == 4

\* the tag and the release name of a run
MainNames == { <<"v1.0", "First Release">>, <<"{{CHECKSUMS}}", "">> }

MainArgvs ==
    { SubSeq(<<"template.html", n[1], n[2]>>, 1, k) : n \in MainNames, k \in 0..3 }
    \cup { <<"template.html", n[1], n[2]>> \o [i \in 1..k |-> "extra"] :
             n \in MainNames, k \in 1..(MaxArgs - 3) }

MainTemplates ==
    {"<h1>{{RELEASE_NAME}} {{TAG_NAME}}</h1>{{DOWNLOAD_SECTIONS}}{{CHECKSUMS}}",
     "<html></html>"}

ZhDir == << [name |-> "zh", kind |-> "dir", size |-> Bytes(0),
             readable |-> FALSE, text |-> ""] >>

MainDirs == {<<>>, ReleaseDir, ReleaseDir \o ZhDir, BraceDir}

InitMain ==
    /\ pc = "check_args"
    /\ variant \in {"default", "zh"}
    /\ argv \in MainArgvs
    /\ template_state \in {"ok", "missing", "unreadable"}
    /\ template \in MainTemplates
    /\ script_dir \in SUBSET {ScriptNames[i] : i \in 1..3}
    /\ cwd \in MainDirs
    /\ fs_ops = <<>>
    /\ messages = <<>>
    /\ exit_status = Running
    /\ content = ""
    /\ tag_name = ""
    /\ release_name = ""
    /\ download_sections = ""
    /\ IdleSections
    /\ platform = <<>> /\ section = "" /\ checksums = ""
    /\ IdleArch
    /\ IdleSize

NextMain ==
    \/ CheckArgs
    \/ ReadTemplate
    \/ GenerateLinuxSection
    \/ GenerateMacosSection
    \/ GenerateWindowsSection
    \/ GenerateChecksums
    \/ ReplaceTagName
    \/ ReplaceReleaseName
    \/ ReplaceDownloadSections
    \/ ReplaceChecksums
    \/ MakeZhDir
    \/ WriteOutput
    \/ \E i \in 1..3 : CopyScript(i)
    \/ Finish

\* the script runs to its end: a step that can be taken is taken
SpecMain == InitMain /\ [][NextMain]_vars /\ WF_vars(NextMain)

\* the run was started with the wrong number of arguments, or its template
\* is missing or cannot be read
FatalInvocation == Len(argv) # 3 \/ template_state # "ok"

\* the paths of the operations `op` of the run, in order
RECURSIVE PathsOf(_, _)
PathsOf(ops, op) ==
    IF ops = <<>> THEN <<>>
    ELSE IF Head(ops).op = op THEN <<Head(ops).path>> \o PathsOf(Tail(ops), op)
    ELSE PathsOf(Tail(ops), op)

\* the scripts the loop has gone through, in order
RECURSIVE Processed(_)
Processed(msgs) ==
    IF msgs = <<>> THEN <<>>
    ELSE IF Head(msgs).kind \in {"copied", "warning"}
         THEN <<Head(msgs).about>> \o Processed(Tail(msgs))
         ELSE Processed(Tail(msgs))

Range(f) == { f[i] : i \in DOMAIN f }

\* the last thing printed is the report of a fatal error
ErrorReported ==
    /\ messages # <<>>
    /\ messages[Len(messages)].kind \in {"usage", "error", "traceback"}

\* C1: a run started with an argument count other than three, or with a
\* template that is missing or unreadable, reports the error and ends with
\* a non-zero exit status, and has then written no index.html and copied no
\* installer script; this in both variants.
C1_FatalNoOutput ==
    /\ [](FatalInvocation =>
            /\ fs_ops = <<>>
            /\ exit_status # 0
            /\ pc = "exit" => (exit_status = 1 /\ ErrorReported))
    /\ (FatalInvocation ~> (pc = "exit" /\ exit_status = 1))

\* a run of the zh generator whose template cannot be read has ended
C1_Witness ==
    /\ variant = "zh"
    /\ Len(argv) = 3
    /\ template_state = "unreadable"
    /\ pc = "exit"
    /\ exit_status = 1
    /\ fs_ops = <<>>

\* a run that has ended with status 0
Succeeded == pc = "exit" /\ exit_status = 0

\* the directory zh is there: it was, or the run made it
ZhExists ==
    \/ \E i \in 1..Len(cwd) : cwd[i].name = "zh" /\ cwd[i].kind = "dir"
    \/ \E i \in 1..Len(fs_ops) : fs_ops[i].op = "mkdir" /\ fs_ops[i].path = "zh"

InOrderAfterWrite ==
    /\ Processed(messages) = SubSeq(ScriptNames, 1, Len(Processed(messages)))
    /\ \A i \in 1..Len(messages) :
          messages[i].kind \in {"copied", "warning"} =>
              \E j \in 1..(i - 1) : messages[j].kind = "generated"
    /\ \A i \in 1..Len(fs_ops) :
          fs_ops[i].op = "copy" =>
              \E j \in 1..(i - 1) : fs_ops[j].op = "write"

\* a missing script gives a warning and nothing else: no copy, no exit
MissingOnlyWarns ==
    \A i \in 1..Len(messages) :
        messages[i].kind = "warning" =>
            /\ messages[i].about \notin script_dir
            /\ messages[i].about \notin Range(PathsOf(fs_ops, "copy"))
            /\ exit_status # 1

\* C10: copy_installation_scripts runs only after the page has been written
\* and goes through install.sh, install.ps1, install.bat in that order; a
\* missing script gives only a warning, so that whichever of the three are
\* present, each present one is eventually copied, also after a missing
\* one, and the run ends normally.
C10_ScriptsCopied ==
    /\ [](InOrderAfterWrite /\ MissingOnlyWarns)
    /\ (~FatalInvocation ~>
           /\ Succeeded
           /\ Processed(messages) = ScriptNames
           /\ Range(PathsOf(fs_ops, "copy")) = script_dir)

\* a run without install.sh and install.ps1 has copied install.bat and ended
C10_Witness ==
    /\ variant = "default"
    /\ Succeeded
    /\ script_dir = {"install.bat"}
    /\ PathsOf(fs_ops, "copy") = <<"install.bat">>
    /\ Len(messages) = 4

====
